---- MODULE Spec2Model ----
(***************************************************************************)
(* chatexo-server: the Redis-backed room registry (RoomManager in          *)
(* server.js), the socket.io signaling handlers (initSignaling and         *)
(* handleUserLeave in signal.js) and the periodic cleanup.                 *)
(*                                                                         *)
(* Granularity.  Node runs every handler on one event loop, so the code    *)
(* between two awaits is atomic.  All Redis commands go through the one    *)
(* client created in server.js:17, which sends them in the order they are  *)
(* issued and resolves them in that order.  A handler in flight is         *)
(* therefore an entry of the FIFO `queue` naming its outstanding Redis     *)
(* command; one step of the model executes the command at the head of the  *)
(* queue and runs the handler's continuation up to its next command.       *)
(* io.in(room).fetchSockets() on the default in-memory adapter reads the   *)
(* membership synchronously when it is called, so it is part of the        *)
(* segment that calls it.                                                  *)
(*                                                                         *)
(* Redis keeps every hash field as a string; the model keeps userCount as   *)
(* the number getRoom parses back and isActive as "true" or "false".       *)
(*                                                                         *)
(* Time is counted in ticks of HoursPerTick hours; Date.now() is `now`.    *)
(***************************************************************************)
EXTENDS Integers, Sequences, FiniteSets, TLC

\* ---------------------------------------------------------------- bounds
Conns == {"a", "b"}            \* socket ids the gateway hands out
RoomIds == {"r1", "r2"}        \* room identifiers clients supply
Passwords == {"secret", "wrong"}

MaxNow == 2                    \* the clock stops after this many ticks
HoursPerTick == 24             \* hours per clock tick
MaxUserCount == 2              \* joins are not started beyond this stored count
MaxInFlight == 2               \* handlers awaiting Redis at the same time

\* ------------------------------------------------------ program constants
InactivityHours == 24          \* cleanupInactiveRooms: hoursSinceActivity > 24

NoRoom == "none"               \* socket.roomId undefined / connectionInfo.roomId null
Absent == "absent"             \* no entry in activeConnections
NoConn == "noconn"
NoUser == "null"               \* createdBy = null
NoCount == -1                  \* an event that carries no userCount

VARIABLES
  now,                \* Date.now(), in ticks
  roomHash,           \* Redis hash room:<id>, a function from field names
  roomsList,          \* Redis set rooms:active
  roomsLatest,        \* Redis sorted set rooms:latest: id -> score, -1 if absent
  connected,          \* socket.connected, per socket
  socketRoomId,       \* socket.roomId, per socket
  sioRooms,           \* socket.io adapter: room id -> sockets that joined it
  activeConnections,  \* the Map of server.js:84: id -> Absent | NoRoom | room
  queue,              \* handlers in flight, in the order of their Redis commands
  swTodo,             \* cleanupInactiveRooms: room ids still to visit
  out,                \* events delivered to sockets by the last step
  fin,                \* the handler that returned in the last step
  joinsOnly,          \* history: only connects and one-at-a-time first joins so far
  swState,            \* history: "none" | "clean" | "dirty" | "finished"
  swSnap              \* history: the store as the undisturbed cleanup run found it

storeVars == <<roomHash, roomsList, roomsLatest>>
sockVars == <<connected, socketRoomId, sioRooms, activeConnections>>
histVars == <<joinsOnly, swState, swSnap>>
vars == <<now, storeVars, sockVars, queue, swTodo, out, fin, histVars>>

\* ------------------------------------------------------------ Redis hashes
EmptyHash == [f \in {} |-> 0]
Null == EmptyHash              \* getRoom's null

\* HSET key field value ...: sets the given fields, keeps the others.
hSet(h, new) ==
  [f \in (DOMAIN h) \cup (DOMAIN new) |-> IF f \in DOMAIN new THEN new[f] ELSE h[f]]

BoolStr(b) == IF b THEN "true" ELSE "false"

\* createRoom's roomData, as the strings Redis keeps.
RoomData(r, t, by) ==
  [roomId |-> r, userCount |-> 0, createdAt |-> t, lastActivity |-> t,
   createdBy |-> by, isActive |-> BoolStr(TRUE)]

\* parseInt(roomData.userCount) || 0
ParseCount(h) ==
  IF "userCount" \in DOMAIN h
  THEN (IF h.userCount = 0 THEN 0 ELSE h.userCount)
  ELSE 0

\* RoomManager.getRoom on the hash h of a room.
getRoomOf(h) ==
  IF DOMAIN h = {} THEN Null
  ELSE hSet(h, [userCount |-> ParseCount(h),
                isActive |-> ("isActive" \in DOMAIN h /\ h.isActive = "true")])

getRoom(r) == getRoomOf(roomHash[r])

RoomExists(r) == getRoom(r) # Null

Max(x, y) == IF x >= y THEN x ELSE y

\* ----------------------------------------------------------- socket.io
\* The sockets in room id x: every connected socket is in the room named by
\* its own id; the other rooms are those joined with socket.join.
GroupIn(sio, conn, x) ==
  IF x \in Conns THEN (IF conn[x] THEN {x} ELSE {})
  ELSE IF x \in RoomIds THEN sio[x]
  ELSE {}

Group(x) == GroupIn(sioRooms, connected, x)

Msg(to, ev, from, room, uc) ==
  [to |-> to, ev |-> ev, from |-> from, room |-> room, uc |-> uc]

\* socket.emit(ev, ...): reaches the socket's client while it is connected.
Emit(c, ev, room, uc) ==
  IF connected[c] THEN {Msg(c, ev, c, room, uc)} ELSE {}

\* socket.to(x).emit(ev, ...): every socket in room x except the sender.
BroadcastIn(sio, conn, c, x, ev, uc) ==
  {Msg(d, ev, c, x, uc) : d \in GroupIn(sio, conn, x) \ {c}}

Broadcast(c, x, ev, uc) == BroadcastIn(sioRooms, connected, c, x, ev, uc)

\* ------------------------------------------------------- handlers in flight
Task(kind, pc, c, r, n, via) ==
  [kind |-> kind, pc |-> pc, conn |-> c, room |-> r, n |-> n, via |-> via,
   ok |-> FALSE]

NoFin == Task("none", "", NoConn, NoRoom, 0, "")

Cur == queue[1]
Requeue(t) == Append(Tail(queue), t)
InFlight(c) == \E i \in 1..Len(queue) : queue[i].conn = c
SweepInFlight == \E i \in 1..Len(queue) : queue[i].kind = "sweep"
JoinsInFlight(r) ==
  Cardinality({i \in 1..Len(queue) : queue[i].kind = "join" /\ queue[i].room = r})

\* ------------------------------------------------------------ histories
NoSnap == [hash |-> [r \in RoomIds |-> EmptyHash], list |-> {}]

\* A step that is not part of the cleanup run.
HistOther ==
  /\ swState' = (IF swState \in {"clean", "dirty"} THEN "dirty" ELSE "none")
  /\ swSnap' = NoSnap

HistSweepFinish ==
  /\ swState' = (IF swState = "clean" THEN "finished" ELSE "none")
  /\ swSnap' = (IF swState = "clean" THEN swSnap ELSE NoSnap)

Init ==
  /\ now = 0
  /\ roomHash = [r \in RoomIds |-> EmptyHash]
  /\ roomsList = {}
  /\ roomsLatest = [r \in RoomIds |-> -1]
  /\ connected = [c \in Conns |-> FALSE]
  /\ socketRoomId = [c \in Conns |-> NoRoom]
  /\ sioRooms = [r \in RoomIds |-> {}]
  /\ activeConnections = [c \in Conns |-> Absent]
  /\ queue = <<>>
  /\ swTodo = {}
  /\ out = {}
  /\ fin = NoFin
  /\ joinsOnly = TRUE
  /\ swState = "none"
  /\ swSnap = NoSnap

\* ---------------------------------------------------------- connections
\* io.on('connection'): a new socket, registered with roomId null.
Connect(c) ==
  /\ ~connected[c]
  /\ ~InFlight(c)
  /\ connected' = [connected EXCEPT ![c] = TRUE]
  /\ socketRoomId' = [socketRoomId EXCEPT ![c] = NoRoom]
  /\ activeConnections' = [activeConnections EXCEPT ![c] = NoRoom]
  /\ out' = {}
  /\ fin' = NoFin
  /\ HistOther
  /\ UNCHANGED <<now, storeVars, sioRooms, queue, swTodo, joinsOnly>>

\* The clock advances while no handler awaits Redis (a tick is hours long).
Tick ==
  /\ queue = <<>>
  /\ now < MaxNow
  /\ now' = now + 1
  /\ out' = {}
  /\ fin' = NoFin
  /\ HistOther
  /\ UNCHANGED <<storeVars, sockVars, queue, swTodo, joinsOnly>>

\* ------------------------------------------------------------- join-room
\* Variant: every password is accepted.
AnyPassword(pw) == TRUE

\* if (password !== 'secret') ... return
ValidPassword(pw) == pw = "secret"

\* join-room, lines 12-21: a wrong password is refused at once.
JoinRejected(c, r, pw) ==
  /\ connected[c]
  /\ ~ValidPassword(pw)
  /\ out' = Emit(c, "join-error", r, NoCount)
  /\ fin' = Task("join", "", c, r, 0, "")
  /\ joinsOnly' = FALSE
  /\ HistOther
  /\ UNCHANGED <<now, storeVars, sockVars, queue, swTodo>>

\* join-room, lines 12-24: the password is right and getRoom is issued.  The
\* handler in flight remembers the password it was given.
JoinStart(k, c, r, pw) ==
  /\ connected[c]
  /\ ValidPassword(pw)
  /\ Len(queue) < k
  /\ ParseCount(roomHash[r]) + JoinsInFlight(r) < MaxUserCount
  /\ queue' = Append(queue, Task("join", "get", c, r, 0, pw))
  /\ out' = {}
  /\ fin' = NoFin
  /\ joinsOnly' = (joinsOnly /\ queue = <<>> /\ socketRoomId[c] = NoRoom)
  /\ HistOther
  /\ UNCHANGED <<now, storeVars, sockVars, swTodo>>

\* Variant: the stored count is taken as it is.
JoinCountNoIncrement(room) == IF room.userCount = 0 THEN 0 ELSE room.userCount

\* (room.userCount || 0) + 1
JoinCount(room) == (IF room.userCount = 0 THEN 0 ELSE room.userCount) + 1

\* Lines 29-37 and 156-163: connectionInfo.roomId, socket.join, socket.roomId.
\* socket.join does nothing once the socket has disconnected.
Bind(c, r) ==
  /\ activeConnections' =
       [activeConnections EXCEPT ![c] = IF @ = Absent THEN Absent ELSE r]
  /\ sioRooms' = [sioRooms EXCEPT ![r] = IF connected[c] THEN @ \cup {c} ELSE @]
  /\ socketRoomId' = [socketRoomId EXCEPT ![c] = r]
  /\ UNCHANGED connected

\* getRoom resolves in join-room: an existing room is joined, a missing one
\* is created first.
JoinGetRoom ==
  /\ queue # <<>>
  /\ Cur.kind = "join" /\ Cur.pc = "get"
  /\ LET room == getRoom(Cur.room) IN
       IF room = Null
       THEN /\ queue' = Requeue([Cur EXCEPT !.pc = "chset"])
            /\ UNCHANGED sockVars
       ELSE /\ Bind(Cur.conn, Cur.room)
            /\ queue' = Requeue([Cur EXCEPT !.pc = "sismember", !.n = JoinCount(room)])
  /\ out' = {}
  /\ fin' = NoFin
  /\ HistOther
  /\ UNCHANGED <<now, storeVars, swTodo, joinsOnly>>

\* createRoom is called by join-room (createdBy = null) and by POST /rooms
\* (createdBy = req.user.id).
Creating == queue # <<>> /\ Cur.kind \in {"join", "post"}
CreatedBy(t) == IF t.kind = "post" THEN t.via ELSE NoUser

\* createRoom: hSet of the room data.
CreateHSet ==
  /\ Creating /\ Cur.pc = "chset"
  /\ roomHash' = [roomHash EXCEPT ![Cur.room] =
                    hSet(@, RoomData(Cur.room, now, CreatedBy(Cur)))]
  /\ queue' = Requeue([Cur EXCEPT !.pc = "csadd"])
  /\ out' = {}
  /\ fin' = NoFin
  /\ HistOther
  /\ UNCHANGED <<now, roomsList, roomsLatest, sockVars, swTodo, joinsOnly>>

\* createRoom: sAdd to rooms:active.
CreateSAdd ==
  /\ Creating /\ Cur.pc = "csadd"
  /\ roomsList' = roomsList \cup {Cur.room}
  /\ queue' = Requeue([Cur EXCEPT !.pc = "czadd"])
  /\ out' = {}
  /\ fin' = NoFin
  /\ HistOther
  /\ UNCHANGED <<now, roomHash, roomsLatest, sockVars, swTodo, joinsOnly>>

\* createRoom: zAdd to rooms:latest; createRoom returns its roomData.  The
\* join handler binds the socket and issues updateRoomActivity; POST /rooms
\* answers 201.
CreateZAdd ==
  /\ Creating /\ Cur.pc = "czadd"
  /\ roomsLatest' = [roomsLatest EXCEPT ![Cur.room] = now]
  /\ IF Cur.kind = "join"
     THEN /\ Bind(Cur.conn, Cur.room)
          /\ queue' = Requeue([Cur EXCEPT !.pc = "sismember",
                 !.n = JoinCount(RoomData(Cur.room, now, NoUser))])
          /\ fin' = NoFin
     ELSE /\ queue' = Tail(queue)
          /\ fin' = [Cur EXCEPT !.ok = TRUE]
          /\ UNCHANGED sockVars
  /\ out' = {}
  /\ HistOther
  /\ UNCHANGED <<now, roomHash, roomsList, swTodo, joinsOnly>>

\* ------------------------------------------------- handlers that return
\* join-room, lines 43-62: joined-room to the joiner, user-joined to the
\* room, and new-user when fetchSockets finds more than one socket.  The
\* result of updateRoomActivity is not looked at.
FinishJoin(t) ==
  /\ out' = Emit(t.conn, "joined-room", t.room, t.n)
              \cup Broadcast(t.conn, t.room, "user-joined", t.n)
              \cup (IF Cardinality(Group(t.room)) > 1
                    THEN Broadcast(t.conn, t.room, "new-user", NoCount)
                    ELSE {})
  /\ UNCHANGED sockVars

\* Variant: an empty room is deleted at once.
EmptyRoomDeleted(h, newUserCount) == IF newUserCount = 0 THEN EmptyHash ELSE h

\* handleUserLeave, lines 224-229: an empty room is only logged.
EmptyRoom(h, newUserCount) == h

\* handleUserLeave, lines 214-233: user-left to the room, socket.leave,
\* delete socket.roomId, activeConnections.delete.
FinishLeave(t) ==
  /\ out' = Broadcast(t.conn, t.room, "user-left", t.n)
  /\ sioRooms' = [sioRooms EXCEPT ![t.room] = @ \ {t.conn}]
  /\ socketRoomId' = [socketRoomId EXCEPT ![t.conn] = NoRoom]
  /\ activeConnections' = [activeConnections EXCEPT ![t.conn] = Absent]
  /\ UNCHANGED connected

\* reconnect-to-room, lines 169-179.
FinishReconnect(t) ==
  /\ out' = Emit(t.conn, "reconnected-to-room", t.room, t.n)
              \cup Broadcast(t.conn, t.room, "user-reconnected", t.n)
  /\ UNCHANGED sockVars

\* The caller's code after `await roomManager.updateRoomActivity(...)`.
Finish(t) ==
  /\ fin' = t
  /\ CASE t.kind = "join" -> FinishJoin(t)
       [] t.kind = "leave" -> FinishLeave(t)
       [] OTHER -> FinishReconnect(t)

Updating == queue # <<>> /\ Cur.kind \in {"join", "leave", "reconnect"}

\* updateRoomActivity: sIsMember; a room not in rooms:active returns false.
UpdateSIsMember ==
  /\ Updating /\ Cur.pc = "sismember"
  /\ IF Cur.room \in roomsList
     THEN /\ queue' = Requeue([Cur EXCEPT !.pc = "hset"])
          /\ out' = {}
          /\ fin' = NoFin
          /\ UNCHANGED sockVars
     ELSE /\ queue' = Tail(queue)
          /\ Finish([Cur EXCEPT !.ok = FALSE])
  /\ HistOther
  /\ UNCHANGED <<now, storeVars, swTodo, joinsOnly>>

\* Variant: lastActivity is written as the epoch.
ActivityEpoch(userCount, t) ==
  [userCount |-> userCount, lastActivity |-> 0, isActive |-> BoolStr(userCount > 0)]

\* The fields updateRoomActivity writes.
Activity(userCount, t) ==
  [userCount |-> userCount, lastActivity |-> t, isActive |-> BoolStr(userCount > 0)]

\* updateRoomActivity: hSet of userCount, lastActivity and isActive.
UpdateHSet ==
  /\ Updating /\ Cur.pc = "hset"
  /\ roomHash' = [roomHash EXCEPT ![Cur.room] = hSet(@, Activity(Cur.n, now))]
  /\ queue' = Requeue([Cur EXCEPT !.pc = "zadd"])
  /\ out' = {}
  /\ fin' = NoFin
  /\ HistOther
  /\ UNCHANGED <<now, roomsList, roomsLatest, sockVars, swTodo, joinsOnly>>

\* updateRoomActivity: zAdd of the new score, then it returns true.
UpdateZAdd ==
  /\ Updating /\ Cur.pc = "zadd"
  /\ roomsLatest' = [roomsLatest EXCEPT ![Cur.room] = now]
  /\ roomHash' = [roomHash EXCEPT ![Cur.room] =
                    IF Cur.kind = "leave" THEN EmptyRoom(@, Cur.n) ELSE @]
  /\ queue' = Tail(queue)
  /\ Finish([Cur EXCEPT !.ok = TRUE])
  /\ HistOther
  /\ UNCHANGED <<now, roomsList, swTodo, joinsOnly>>

\* ------------------------------------------------------------ POST /rooms
Users == {"u1"}                \* req.user.id of an authenticated caller

\* POST /rooms, lines 391-402: a roomId is given and getRoom is issued.
PostRoomsStart(k, r, u) ==
  /\ Len(queue) < k
  /\ queue' = Append(queue, Task("post", "get", NoConn, r, 0, u))
  /\ out' = {}
  /\ fin' = NoFin
  /\ joinsOnly' = FALSE
  /\ HistOther
  /\ UNCHANGED <<now, storeVars, sockVars, swTodo>>

\* getRoom resolves in POST /rooms, lines 402-410: an existing room is
\* answered with 409 ROOM_EXISTS, a missing one is created.
PostGetRoom ==
  /\ queue # <<>>
  /\ Cur.kind = "post" /\ Cur.pc = "get"
  /\ IF getRoom(Cur.room) # Null
     THEN /\ queue' = Tail(queue)
          /\ fin' = [Cur EXCEPT !.ok = FALSE]
     ELSE /\ queue' = Requeue([Cur EXCEPT !.pc = "chset"])
          /\ fin' = NoFin
  /\ out' = {}
  /\ HistOther
  /\ UNCHANGED <<now, storeVars, sockVars, swTodo, joinsOnly>>

\* ------------------------------------------------- leave-room, disconnect
\* Variant: the count is not floored.
LeaveCountNoFloor(len) == len - 1

\* Math.max(0, roomSockets.length - 1)
LeaveCount(len) == Max(0, len - 1)

\* handleUserLeave up to its first Redis command, lines 202-212.  sio and
\* conn are the adapter's rooms and the connection flags when it is called.
handleUserLeave(k, c, via, sio, conn) ==
  /\ IF socketRoomId[c] # NoRoom
     THEN /\ Len(queue) < k
          /\ queue' = Append(queue,
               Task("leave", "sismember", c, socketRoomId[c],
                    LeaveCount(Cardinality(GroupIn(sio, conn, socketRoomId[c]))), via))
          /\ fin' = NoFin
          /\ UNCHANGED activeConnections
     ELSE /\ activeConnections' = [activeConnections EXCEPT ![c] = Absent]
          /\ fin' = Task("leave", "", c, NoRoom, 0, via)
          /\ UNCHANGED queue
  /\ out' = {}
  /\ joinsOnly' = FALSE
  /\ HistOther
  /\ UNCHANGED <<now, storeVars, socketRoomId, swTodo>>

\* The leave-room event.
LeaveRoom(k, c) ==
  /\ connected[c]
  /\ handleUserLeave(k, c, "leave-room", sioRooms, connected)
  /\ UNCHANGED <<connected, sioRooms>>

\* Transport close: socket.io takes the socket out of every room and marks
\* it disconnected before it emits 'disconnect'.
Disconnect(k, c) ==
  /\ connected[c]
  /\ connected' = [connected EXCEPT ![c] = FALSE]
  /\ sioRooms' = [r \in RoomIds |-> sioRooms[r] \ {c}]
  /\ handleUserLeave(k, c, "disconnect", sioRooms', connected')

\* ------------------------------------------------------ reconnect-to-room
\* reconnect-to-room, lines 141-148: a missing roomId is refused at once.
ReconnectRefused(c) ==
  /\ connected[c]
  /\ out' = Emit(c, "reconnect-error", NoRoom, NoCount)
  /\ fin' = Task("reconnect", "", c, NoRoom, 0, "")
  /\ joinsOnly' = FALSE
  /\ HistOther
  /\ UNCHANGED <<now, storeVars, sockVars, queue, swTodo>>

\* reconnect-to-room, lines 141-150: getRoom is issued.
ReconnectStart(k, c, r) ==
  /\ connected[c]
  /\ Len(queue) < k
  /\ queue' = Append(queue, Task("reconnect", "get", c, r, 0, ""))
  /\ out' = {}
  /\ fin' = NoFin
  /\ joinsOnly' = FALSE
  /\ HistOther
  /\ UNCHANGED <<now, storeVars, sockVars, swTodo>>

\* Variant: the missing room goes unnoticed.
RoomGoneNever(room) == FALSE

\* if (!room): the reconnect is refused.
RoomGone(room) == room = Null

\* getRoom resolves in reconnect-to-room, lines 150-167.
ReconnectGetRoom ==
  /\ queue # <<>>
  /\ Cur.kind = "reconnect" /\ Cur.pc = "get"
  /\ IF RoomGone(getRoom(Cur.room))
     THEN /\ out' = Emit(Cur.conn, "reconnect-error", Cur.room, NoCount)
          /\ fin' = [Cur EXCEPT !.ok = FALSE]
          /\ queue' = Tail(queue)
          /\ UNCHANGED sockVars
     ELSE /\ Bind(Cur.conn, Cur.room)
          /\ queue' = Requeue([Cur EXCEPT !.pc = "sismember",
                 !.n = Cardinality(GroupIn(sioRooms', connected, Cur.room))])
          /\ out' = {}
          /\ fin' = NoFin
  /\ HistOther
  /\ UNCHANGED <<now, storeVars, swTodo, joinsOnly>>

\* ------------------------------------------------ offer, answer, candidate
RelayKinds == {"offer", "answer", "ice-candidate"}

\* socket.to(targetUserId).emit(kind, {fromUserId: socket.id, ...})
Relay(c, target, kind) ==
  /\ connected[c]
  /\ out' = Broadcast(c, target, kind, NoCount)
  /\ fin' = Task(kind, "", c, target, 0, "")
  /\ joinsOnly' = FALSE
  /\ HistOther
  /\ UNCHANGED <<now, storeVars, sockVars, queue, swTodo>>

\* ------------------------------------------------------------- the cleanup
\* (Date.now() - lastActivity.getTime()) / (1000 * 60 * 60); a hash without
\* lastActivity gives NaN, which compares false.
HoursSinceActivity(roomData, t) == (t - roomData.lastActivity) * HoursPerTick

\* Variant: the threshold itself already counts as inactive.
InactiveAtLeast(roomData, t) ==
  /\ "lastActivity" \in DOMAIN roomData
  /\ HoursSinceActivity(roomData, t) >= InactivityHours

\* if (hoursSinceActivity > 24)
Inactive(roomData, t) ==
  /\ "lastActivity" \in DOMAIN roomData
  /\ HoursSinceActivity(roomData, t) > InactivityHours

\* The setInterval callback of server.js:485 calls cleanupInactiveRooms,
\* which issues sMembers.
SweepStart(k) ==
  /\ ~SweepInFlight
  /\ Len(queue) < k
  /\ queue' = Append(queue, Task("sweep", "smembers", NoConn, NoRoom, 0, ""))
  /\ swTodo' = {}
  /\ out' = {}
  /\ fin' = NoFin
  /\ joinsOnly' = FALSE
  /\ swState' = "clean"
  /\ swSnap' = [hash |-> roomHash, list |-> roomsList]
  /\ UNCHANGED <<now, storeVars, sockVars>>

\* The for loop moves to the next room id, or the run ends.
SweepAdvance(todo) ==
  \/ /\ todo = {}
     /\ queue' = Tail(queue)
     /\ swTodo' = {}
     /\ fin' = Cur
     /\ HistSweepFinish
  \/ /\ \E r \in todo :
          /\ queue' = Requeue([Cur EXCEPT !.pc = "get", !.room = r])
          /\ swTodo' = todo \ {r}
     /\ fin' = NoFin
     /\ UNCHANGED <<swState, swSnap>>

Sweeping == queue # <<>> /\ Cur.kind = "sweep"

\* sMembers resolves with the room ids, in no particular order.
SweepSMembers ==
  /\ Sweeping /\ Cur.pc = "smembers"
  /\ SweepAdvance(roomsList)
  /\ out' = {}
  /\ UNCHANGED <<now, storeVars, sockVars, joinsOnly>>

\* getRoom resolves in the loop, lines 198-208.
SweepGetRoom ==
  /\ Sweeping /\ Cur.pc = "get"
  /\ LET roomData == getRoom(Cur.room) IN
       IF roomData # Null /\ Inactive(roomData, now)
       THEN /\ queue' = Requeue([Cur EXCEPT !.pc = "del"])
            /\ fin' = NoFin
            /\ UNCHANGED <<swTodo, swState, swSnap>>
       ELSE SweepAdvance(swTodo)
  /\ out' = {}
  /\ UNCHANGED <<now, storeVars, sockVars, joinsOnly>>

\* redis.del(room key), redis.sRem(rooms:active, id), redis.zRem(rooms:latest, id)
Del(hashes, r) == [hashes EXCEPT ![r] = EmptyHash]

\* Variant: removing an id that is not in the set puts it there.
SRemToggle(list, r) == IF r \in list THEN list \ {r} ELSE list \cup {r}

SRem(list, r) == list \ {r}
ZRem(latest, r) == [latest EXCEPT ![r] = -1]

\* RoomManager.removeRoom on a store st = [hash, list, latest].
removeRoom(st, r) ==
  [hash |-> Del(st.hash, r), list |-> SRem(st.list, r), latest |-> ZRem(st.latest, r)]

\* removeRoom: del of the hash.
RemoveDel ==
  /\ Sweeping /\ Cur.pc = "del"
  /\ roomHash' = Del(roomHash, Cur.room)
  /\ queue' = Requeue([Cur EXCEPT !.pc = "srem"])
  /\ out' = {}
  /\ fin' = NoFin
  /\ UNCHANGED <<now, roomsList, roomsLatest, sockVars, swTodo, histVars>>

\* removeRoom: sRem from rooms:active.
RemoveSRem ==
  /\ Sweeping /\ Cur.pc = "srem"
  /\ roomsList' = SRem(roomsList, Cur.room)
  /\ queue' = Requeue([Cur EXCEPT !.pc = "zrem"])
  /\ out' = {}
  /\ fin' = NoFin
  /\ UNCHANGED <<now, roomHash, roomsLatest, sockVars, swTodo, histVars>>

\* removeRoom: zRem from rooms:latest; the loop goes on.
RemoveZRem ==
  /\ Sweeping /\ Cur.pc = "zrem"
  /\ roomsLatest' = ZRem(roomsLatest, Cur.room)
  /\ SweepAdvance(swTodo)
  /\ out' = {}
  /\ UNCHANGED <<now, roomHash, roomsList, sockVars, joinsOnly>>

\* ------------------------------------------------------ specifications
\* The socket events and the continuations of their handlers; k handlers
\* may await Redis at the same time, and clients name the rooms in R.
Handlers(k, R) ==
  \/ \E c \in Conns : Connect(c)
  \/ Tick
  \/ \E c \in Conns, r \in R, pw \in Passwords : JoinStart(k, c, r, pw)
  \/ JoinGetRoom
  \/ CreateHSet
  \/ CreateSAdd
  \/ CreateZAdd
  \/ UpdateSIsMember
  \/ UpdateHSet
  \/ UpdateZAdd
  \/ \E c \in Conns : LeaveRoom(k, c)
  \/ \E c \in Conns : Disconnect(k, c)
  \/ \E c \in Conns, r \in R : ReconnectStart(k, c, r)
  \/ ReconnectGetRoom

\* The periodic cleanup.
Sweeper(k) ==
  \/ SweepStart(k)
  \/ SweepSMembers
  \/ SweepGetRoom
  \/ RemoveDel
  \/ RemoveSRem
  \/ RemoveZRem

\* The events that are answered without a Redis command.
Immediate(R) ==
  \/ \E c \in Conns, r \in R, pw \in Passwords : JoinRejected(c, r, pw)
  \/ \E c \in Conns : ReconnectRefused(c)
  \/ \E c \in Conns, x \in Conns \cup R, kind \in RelayKinds : Relay(c, x, kind)

\* The HTTP route that writes to the store.
Http(k, R) ==
  \/ \E r \in R, u \in Users : PostRoomsStart(k, r, u)
  \/ PostGetRoom

\* Handlers and the cleanup interleave at their Redis commands.
Next == Handlers(MaxInFlight, {"r1"}) \/ Sweeper(MaxInFlight)
Spec == Init /\ [][Next]_vars

\* One handler at a time: each runs to its end before the next event.
NextSeq == Handlers(1, {"r1"}) \/ Sweeper(1)
SpecSeq == Init /\ [][NextSeq]_vars

\* One handler at a time, on two rooms.
NextRooms == Handlers(1, RoomIds) \/ Sweeper(1)
SpecRooms == Init /\ [][NextRooms]_vars

\* One handler at a time, and the cleanup has not run.
NextNoSweep == Handlers(1, {"r1"})
SpecNoSweep == Init /\ [][NextNoSweep]_vars

\* Socket handlers and POST /rooms interleave; the cleanup has not run.
NextRace == Handlers(MaxInFlight, {"r1"}) \/ Http(MaxInFlight, {"r1"})
SpecRace == Init /\ [][NextRace]_vars

\* One handler at a time, with the events answered at once.
NextEvents == Handlers(1, {"r1"}) \/ Immediate({"r1"})
SpecEvents == Init /\ [][NextEvents]_vars

\* ------------------------------------------------------------------ claims
\* The connections in Joined state for room r: live sockets whose roomId is r.
Joined(r) == {c \in Conns : connected[c] /\ socketRoomId[c] = r}

\* A step that executes the Redis command at the head of the queue.
HeadStep == queue # <<>> /\ queue' # queue /\ Len(queue') <= Len(queue)

\* C1: whenever no handler is in flight, the userCount stored for each
\* existing room equals the number of connections in Joined state for it.
C1_CountMatchesJoined ==
  queue = <<>> =>
    \A r \in RoomIds :
      RoomExists(r) => ParseCount(roomHash[r]) = Cardinality(Joined(r))

\* C2: when a run of cleanupInactiveRooms finishes, every room that had a
\* stored userCount greater than 0 when the run started still exists.
C2_SweepSparesOccupied ==
  swState = "finished" =>
    \A r \in swSnap.list :
      ParseCount(swSnap.hash[r]) > 0 => RoomExists(r)

\* C3: a run of cleanupInactiveRooms that no other handler interleaves with
\* removes a room whose userCount is 0 exactly when the time since its
\* lastActivity exceeds the inactivity threshold.
C3_SweepRemovesStaleEmpty ==
  swState = "finished" =>
    \A r \in swSnap.list :
      LET h == swSnap.hash[r] IN
        (h # EmptyHash /\ ParseCount(h) = 0) =>
          (RoomExists(r) <=> ~((now - h.lastActivity) * HoursPerTick > InactivityHours))

\* C3 witness: one run removed a stale empty room and kept a recent empty one.
C3_Witness ==
  /\ swState = "finished"
  /\ \E r1 \in swSnap.list, r2 \in swSnap.list :
       /\ ParseCount(swSnap.hash[r1]) = 0 /\ swSnap.hash[r1] # EmptyHash
       /\ ParseCount(swSnap.hash[r2]) = 0 /\ swSnap.hash[r2] # EmptyHash
       /\ ~RoomExists(r1)
       /\ RoomExists(r2)

\* C4: an offer, answer or ice-candidate is delivered to nobody but the
\* connection its target names, and only while that connection is connected.
C4_RelayToTargetOnly ==
  \A m \in out :
    m.ev \in RelayKinds => (m.to = m.room /\ m.to # m.from /\ connected[m.to])

\* C5: only a leave of a connection that is still bound to its room updates
\* the count and broadcasts user-left, so two leaves of one connection do so
\* once; a leave of a connection that is not Joined changes neither the store
\* nor any inbox.
C5_LeaveIdempotent ==
  [][/\ (HeadStep /\ fin'.kind = "leave" /\ fin'.pc # "")
          => socketRoomId[fin'.conn] # NoRoom
     /\ (fin'.kind = "leave" /\ fin'.pc = "")
          => (out' = {} /\ UNCHANGED storeVars)]_vars

\* C6: every stored userCount, and every userCount a handler is about to
\* store, is a non-negative integer.
C6_CountNonNegative ==
  /\ \A r \in RoomIds :
       "userCount" \in DOMAIN roomHash[r] =>
         (roomHash[r].userCount \in Int /\ roomHash[r].userCount >= 0)
  /\ \A i \in 1..Len(queue) : queue[i].n >= 0

\* C6 witness: the last member disconnected, fetchSockets found no socket,
\* and the floored count 0 was stored.
C6_Witness ==
  /\ fin.kind = "leave" /\ fin.via = "disconnect" /\ fin.ok
  /\ Group(fin.room) = {}
  /\ fin.n = 0
  /\ roomHash[fin.room].userCount = 0

C8_EmptyRoomKeptThenSwept ==
  /\ (fin.kind = "leave" /\ fin.via = "disconnect" /\ fin.pc # ""
        /\ Joined(fin.room) = {})
       => (RoomExists(fin.room) /\ ParseCount(roomHash[fin.room]) = 0)
  /\ swState = "finished" =>
       \A r \in swSnap.list :
         LET h == swSnap.hash[r] IN
           (h # EmptyHash /\ ParseCount(h) = 0
              /\ (now - h.lastActivity) * HoursPerTick > InactivityHours)
             => getRoom(r) = Null

\* C9: while the cleanup has not run, no room is ever removed, and a
\* reconnect-to-room for a room that exists succeeds: the connection is bound
\* to the room and, unless it has closed meanwhile, is in the socket.io room
\* and gets reconnected-to-room, not reconnect-error.
C9_ReconnectBeforeSweep ==
  [][\A r \in RoomIds :
       /\ RoomExists(r) => RoomExists(r)'
       /\ (fin'.kind = "reconnect" /\ fin'.room = r /\ RoomExists(r)') =>
            /\ fin'.pc # "get"
            /\ socketRoomId'[fin'.conn] = r
            /\ \A m \in out' : m.ev # "reconnect-error"
            /\ connected'[fin'.conn] =>
                 /\ fin'.conn \in GroupIn(sioRooms', connected', r)
                 /\ Msg(fin'.conn, "reconnected-to-room", fin'.conn, r, fin'.n) \in out']_vars

\* C9 witness: the only member of the room had disconnected, the room was
\* empty, and a connection reconnected to it.
C9_Witness ==
  /\ fin.kind = "reconnect" /\ fin.ok
  /\ fin.n = 1
  /\ Joined(fin.room) = {fin.conn}
  /\ \E d \in Conns \ {fin.conn} : ~connected[d] /\ activeConnections[d] = Absent
  /\ Msg(fin.conn, "reconnected-to-room", fin.conn, fin.room, 1) \in out

\* C10: when getRoom finds no room in reconnect-to-room, the handler answers
\* reconnect-error and ends: no socket is bound, nothing is written to the
\* store, no further command is issued and nobody gets user-reconnected.
C10_ReconnectRoomGone ==
  [][(HeadStep /\ Cur.kind = "reconnect" /\ Cur.pc = "get" /\ ~RoomExists(Cur.room)) =>
       /\ out' = Emit(Cur.conn, "reconnect-error", Cur.room, NoCount)
       /\ \A m \in out' : m.ev \notin {"user-reconnected", "reconnected-to-room"}
       /\ queue' = Tail(queue)
       /\ \A r \in RoomIds : ~RoomExists(r) => ~RoomExists(r)'
       /\ UNCHANGED storeVars
       /\ UNCHANGED sockVars]_vars

\* C10 witness: a reconnect to a room the cleanup had removed was refused
\* with reconnect-error.
C10_Witness ==
  /\ fin.kind = "reconnect" /\ fin.pc = "get"
  /\ ~RoomExists(fin.room)
  /\ Msg(fin.conn, "reconnect-error", fin.conn, fin.room, NoCount) \in out
  /\ \E c \in Conns : socketRoomId[c] = fin.room

\* C11: a reconnect-to-room that ends either was refused (reconnect-error,
\* no reconnected-to-room) or reports reconnected-to-room for a room that
\* exists in the store; success is never reported for a room the cleanup
\* has removed.
C11_ReconnectSweepRace ==
  (fin.kind = "reconnect" /\ fin.pc # "") =>
    \/ /\ fin.pc = "get"
       /\ \A m \in out : m.ev # "reconnected-to-room"
    \/ /\ fin.pc # "get"
       /\ RoomExists(fin.room)

\* C12: a join-room with an invalid password answers join-error to the
\* sender and changes neither the store, nor any socket, nor the handlers in
\* flight; no join handler with an invalid password ever awaits the store.
C12_InvalidCredentials ==
  [][/\ (fin'.kind = "join" /\ fin'.pc = "") =>
          /\ out' = {Msg(fin'.conn, "join-error", fin'.conn, fin'.room, NoCount)}
          /\ UNCHANGED <<storeVars, sockVars, queue>>
     /\ \A i \in 1..Len(queue') :
          queue'[i].kind = "join" => queue'[i].via = "secret"]_vars

\* C12 witness: a wrong password was refused while another connection was
\* in the room; that connection got nothing.
C12_Witness ==
  /\ fin.kind = "join" /\ fin.pc = ""
  /\ socketRoomId[fin.conn] = NoRoom
  /\ Joined(fin.room) # {}
  /\ out = {Msg(fin.conn, "join-error", fin.conn, fin.room, NoCount)}

\* C13: a connection that has not been bound to a room since it connected
\* (its activeConnections entry still has roomId null) is bound only by a
\* step of its own join-room handler, which runs only with a valid password.
C13_BoundOnlyByJoin ==
  [][\A c \in Conns :
       (activeConnections[c] = NoRoom /\ socketRoomId'[c] # NoRoom) =>
         (queue # <<>> /\ Cur.kind = "join" /\ Cur.conn = c /\ Cur.via = "secret")]_vars

\* C14: once the last member of a room has left or disconnected and no
\* handler is in flight, the room exists in the store with userCount 0.
C14_LeavePathKeepsRoom ==
  (queue = <<>> /\ fin.kind = "leave" /\ fin.pc # ""
     /\ Joined(fin.room) = {} /\ Group(fin.room) = {})
    => (RoomExists(fin.room) /\ ParseCount(roomHash[fin.room]) = 0)

\* C15: a join-room handler calls createRoom only for a room that does not
\* exist: no join creates a room a second time.
C15_CreatedOnce ==
  [][(HeadStep /\ Cur.kind = "join" /\ Cur.pc = "chset") => ~RoomExists(Cur.room)]_vars

\* C16: createRoom called for a room that already exists leaves the fields
\* of the existing room as they are.
C16_CreateExistingRoom ==
  [][(HeadStep /\ Creating /\ Cur.pc = "chset" /\ RoomExists(Cur.room))
       => roomHash'[Cur.room] = roomHash[Cur.room]]_vars

\* C17: updateRoomActivity never brings a room into being: no step of it
\* turns a room that getRoom does not find into one that it finds, and when
\* it returns false the store is as it was.
C17_UpdateActivityContract ==
  [][(HeadStep /\ Updating /\ Cur.pc \in {"sismember", "hset", "zadd"}) =>
       /\ \A r \in RoomIds : (r = Cur.room /\ ~RoomExists(r)) => ~RoomExists(r)'
       /\ (queue' = Tail(queue) /\ ~fin'.ok) => UNCHANGED storeVars]_vars

\* C18: every room in the store has isActive equal to (userCount > 0).
C18_ActiveIffOccupied ==
  \A r \in RoomIds :
    RoomExists(r) => (getRoom(r).isActive <=> (getRoom(r).userCount > 0))

\* C19: while a room exists, no step decreases its lastActivity.
C19_LastActivityMonotone ==
  [][\A r \in RoomIds :
       (RoomExists(r) /\ RoomExists(r)') =>
         /\ "lastActivity" \in DOMAIN roomHash[r]
         /\ "lastActivity" \in DOMAIN roomHash'[r]
         /\ roomHash'[r].lastActivity >= roomHash[r].lastActivity]_vars

\* C19 witness: updateRoomActivity has refreshed lastActivity of a room that
\* was created at an earlier time.
C19_Witness ==
  /\ fin.kind \in {"join", "leave", "reconnect"} /\ fin.ok
  /\ RoomExists(fin.room)
  /\ "createdAt" \in DOMAIN roomHash[fin.room]
  /\ roomHash[fin.room].lastActivity = now
  /\ roomHash[fin.room].createdAt < now

\* The three structures of the store, as removeRoom takes them.
Store == [hash |-> roomHash, list |-> roomsList, latest |-> roomsLatest]
AbsentIn(st, r) == st.hash[r] = EmptyHash /\ r \notin st.list /\ st.latest[r] = -1

\* C20: in every store the program reaches, removeRoom on an absent room
\* changes nothing, removeRoom leaves the room absent from the hash, the
\* active set and the ranking, and a second removeRoom changes nothing more.
C20_RemoveRoomIdempotent ==
  \A r \in RoomIds :
    /\ AbsentIn(Store, r) => removeRoom(Store, r) = Store
    /\ AbsentIn(removeRoom(Store, r), r)
    /\ removeRoom(removeRoom(Store, r), r) = removeRoom(Store, r)

\* C20 witness: the cleanup has just removed a room with removeRoom.
C20_Witness ==
  /\ fin.kind = "sweep"
  /\ \E r \in swSnap.list :
       /\ swSnap.hash[r] # EmptyHash
       /\ AbsentIn(Store, r)
       /\ removeRoom(Store, r) = Store

\* -------------------------------------------------------- the room listings
Limits == {1, 2}               \* the limit of GET /rooms/latest?limit=

\* Redis orders members of equal score by their names.
NameRank(r) == IF r = "r1" THEN 1 ELSE 2

\* The first member of the sorted set in ZRANGE ... REV order: the highest
\* score, and of equal scores the later name.
ZLast(latest, S) ==
  CHOOSE r \in S :
    \A s \in S \ {r} :
      \/ latest[r] > latest[s]
      \/ latest[r] = latest[s] /\ NameRank(r) > NameRank(s)

RECURSIVE ZRevSeq(_, _)
ZRevSeq(latest, S) ==
  IF S = {} THEN <<>>
  ELSE LET r == ZLast(latest, S) IN <<r>> \o ZRevSeq(latest, S \ {r})

\* redis.zRange(key, start, stop, {REV: true}): ranks count from the highest
\* score, a negative rank counts from the other end.
zRangeRev(latest, start, stop) ==
  LET all == ZRevSeq(latest, {r \in RoomIds : latest[r] # -1})
      n == Len(all)
      from == IF start < 0 THEN Max(0, n + start) ELSE start
      to == IF stop < 0 THEN n + stop ELSE (IF stop >= n THEN n - 1 ELSE stop)
  IN  IF from > to THEN <<>> ELSE SubSeq(all, from + 1, to + 1)

\* getLatestRooms up to its push: the ids of the rooms it returns, those of
\* zRange(rooms:latest, 0, limit - 1, REV) for which getRoom is not null.
LatestIds(st, limit) ==
  SelectSeq(zRangeRev(st.latest, 0, limit - 1),
            LAMBDA r : getRoomOf(st.hash[r]) # Null)

\* RoomManager.getLatestRooms on a store st = [hash, list, latest].
getLatestRooms(st, limit) ==
  LET ids == LatestIds(st, limit) IN
    [i \in 1..Len(ids) |-> getRoomOf(st.hash[ids[i]])]

\* C21: with no handler in flight, getLatestRooms(limit) returns at most
\* limit rooms, each an existing room and none twice, in descending order of
\* lastActivity, and an existing room is left out only when limit rooms of
\* at least its lastActivity are returned.
C21_ListRecent ==
  queue = <<>> =>
    \A limit \in Limits :
      LET ids == LatestIds(Store, limit)
          res == getLatestRooms(Store, limit)
      IN  /\ Len(res) <= limit
          /\ \A i \in 1..Len(ids) : RoomExists(ids[i]) /\ res[i] = getRoom(ids[i])
          /\ \A i, j \in 1..Len(ids) : i # j => ids[i] # ids[j]
          /\ \A i \in 1..(Len(res) - 1) : res[i].lastActivity >= res[i + 1].lastActivity
          /\ \A r \in RoomIds :
               (RoomExists(r) /\ \A i \in 1..Len(ids) : ids[i] # r) =>
                 /\ Len(res) = limit
                 /\ \A i \in 1..Len(res) : res[i].lastActivity >= getRoom(r).lastActivity


\* redis.sMembers replies with the members of a set in no particular order:
\* every sequence that names each member once.
sMembers(S) ==
  {s \in [1..Cardinality(S) -> S] : \A i, j \in 1..Cardinality(S) : i # j => s[i] # s[j]}

\* Array.prototype.sort with (a, b) => new Date(b.lastActivity) - new
\* Date(a.lastActivity): stable, the later lastActivity first.  Sorted by
\* insertion; hashes gives the room of an id.
InsertByActivity(hashes, sorted, x) ==
  LET ahead == SelectSeq(sorted, LAMBDA y : hashes[y].lastActivity >= hashes[x].lastActivity)
      behind == SelectSeq(sorted, LAMBDA y : hashes[y].lastActivity < hashes[x].lastActivity)
  IN  ahead \o <<x>> \o behind

RECURSIVE SortByActivity(_, _)
SortByActivity(hashes, s) ==
  IF s = <<>> THEN <<>>
  ELSE InsertByActivity(hashes, SortByActivity(hashes, SubSeq(s, 1, Len(s) - 1)), s[Len(s)])

\* getAllActiveRooms when sMembers replied with roomIds: the ids of the rooms
\* it returns, those with a hash, sorted.
ActiveIds(st, roomIds) ==
  SortByActivity(st.hash, SelectSeq(roomIds, LAMBDA r : getRoomOf(st.hash[r]) # Null))

\* RoomManager.getAllActiveRooms on a store st = [hash, list, latest].
getAllActiveRooms(st, roomIds) ==
  LET ids == ActiveIds(st, roomIds) IN
    [i \in 1..Len(ids) |-> getRoomOf(st.hash[ids[i]])]

\* C22: with no handler in flight, getAllActiveRooms returns every existing
\* room exactly once, and of two adjacent results the first has a
\* lastActivity at least that of the second.
C22_ListActive ==
  queue = <<>> =>
    \A roomIds \in sMembers(roomsList) :
      LET ids == ActiveIds(Store, roomIds)
          res == getAllActiveRooms(Store, roomIds)
      IN  /\ \A r \in RoomIds :
               RoomExists(r) =>
                 Cardinality({i \in 1..Len(ids) : ids[i] = r /\ res[i] = getRoom(r)}) = 1
          /\ \A i \in 1..Len(ids) : RoomExists(ids[i])
          /\ \A i \in 1..(Len(res) - 1) : res[i].lastActivity >= res[i + 1].lastActivity


\* C23: an offer, answer or ice-candidate whose target is not the id of a
\* connected socket is dropped: the step delivers nothing to anybody,
\* nothing to the sender, starts no handler and leaves the store and the
\* sockets' bindings as they were.
C23_RelayDropped ==
  [][(fin'.kind \in RelayKinds /\ ~(fin'.room \in Conns /\ connected[fin'.room]))
       => (out' = {} /\ UNCHANGED <<storeVars, sockVars, queue>>)]_vars


\* ------------------------------------------- audio-status, speaking-status
StatusKinds == {"audio-status", "speaking-status"}

\* The event the handler emits for the one it received.
StatusEvent(kind) ==
  IF kind = "audio-status" THEN "user-audio-status" ELSE "user-speaking-status"

\* if (socket.roomId) socket.to(socket.roomId).emit(...), lines 107-127.
Status(c, kind) ==
  /\ connected[c]
  /\ out' = (IF socketRoomId[c] # NoRoom
             THEN Broadcast(c, socketRoomId[c], StatusEvent(kind), NoCount)
             ELSE {})
  /\ fin' = Task(kind, "", c, socketRoomId[c], 0, "")
  /\ joinsOnly' = FALSE
  /\ HistOther
  /\ UNCHANGED <<now, storeVars, sockVars, queue, swTodo>>

\* The socket events on two rooms, one handler at a time and the status
\* events between their steps; the clock stands still and the cleanup has
\* not run.
NextStatus ==
  \/ \E c \in Conns : Connect(c)
  \/ \E c \in Conns, r \in RoomIds, pw \in Passwords : JoinStart(1, c, r, pw)
  \/ JoinGetRoom
  \/ CreateHSet
  \/ CreateSAdd
  \/ CreateZAdd
  \/ UpdateSIsMember
  \/ UpdateHSet
  \/ UpdateZAdd
  \/ \E c \in Conns : LeaveRoom(1, c)
  \/ \E c \in Conns : Disconnect(1, c)
  \/ \E c \in Conns, r \in RoomIds : ReconnectStart(1, c, r)
  \/ ReconnectGetRoom
  \/ \E c \in Conns, kind \in StatusKinds : Status(c, kind)
SpecStatus == Init /\ [][NextStatus]_vars

\* C24: an audio-status or speaking-status event is delivered, as the
\* matching user-...-status event from the sender, to exactly the other
\* connected sockets whose roomId is the sender's roomId, and to nobody when
\* the sender has no roomId.
C24_StatusToRoomPeers ==
  fin.kind \in StatusKinds =>
    /\ {m.to : m \in out} =
         (IF fin.room = NoRoom THEN {} ELSE Joined(fin.room) \ {fin.conn})
    /\ \A m \in out : m.ev = StatusEvent(fin.kind) /\ m.from = fin.conn


\* C25: a join-room handler that runs to its end has written the count it
\* computed to the room's hash, and its last step delivers joined-room with
\* that count to the joiner and exactly one user-joined, naming the joiner
\* and carrying that count, to every other connection bound to the room and
\* none to the joiner.
C25_UserJoinedBroadcast ==
  [][/\ (HeadStep /\ Cur.kind = "join" /\ Cur.pc = "hset")
          => roomHash'[Cur.room].userCount = Cur.n
     /\ (fin'.kind = "join" /\ fin'.pc # "") =>
          /\ HeadStep /\ Cur.pc = "zadd" /\ fin'.ok /\ fin'.n = Cur.n
          /\ connected[fin'.conn] =>
               Msg(fin'.conn, "joined-room", fin'.conn, fin'.room, fin'.n) \in out'
          /\ \A d \in Joined(fin'.room) \ {fin'.conn} :
               {m \in out' : m.to = d /\ m.ev = "user-joined"} =
                 {Msg(d, "user-joined", fin'.conn, fin'.room, fin'.n)}
          /\ \A m \in out' : m.ev = "user-joined" => m.to # fin'.conn]_vars


\* C26: when handleUserLeave has run to its end for a bound connection, the
\* count it stored and sent in user-left is the number of connections that
\* are still bound to the room, and each of them has received that user-left.
C26_LeaveCount ==
  (fin.kind = "leave" /\ fin.pc # "") =>
    /\ fin.n = Cardinality(Joined(fin.room))
    /\ fin.ok => roomHash[fin.room].userCount = fin.n
    /\ \A d \in Joined(fin.room) :
         Msg(d, "user-left", fin.conn, fin.room, fin.n) \in out


\* ------------------------------------------------------- the store fails
\* The Redis command a handler awaits is rejected: the await throws and the
\* handler's catch block runs.  The command has changed nothing.
Caught(kind) ==
  /\ queue # <<>>
  /\ Cur.kind = kind
  /\ queue' = Tail(queue)
  /\ fin' = [Cur EXCEPT !.pc = "catch"]
  /\ joinsOnly' = FALSE
  /\ HistOther
  /\ UNCHANGED <<now, storeVars, sockVars, swTodo>>

\* Variant: the catch block reports success.
CatchEventJoined(kind) == "joined-room"

\* The event the catch block of a socket handler emits.
CatchEvent(kind) == IF kind = "join" THEN "join-error" ELSE "reconnect-error"

\* join-room, lines 64-70: join-error to the socket.
JoinCatch ==
  /\ Caught("join")
  /\ out' = Emit(Cur.conn, CatchEvent("join"), Cur.room, NoCount)

\* reconnect-to-room, lines 183-189: reconnect-error to the socket.
ReconnectCatch ==
  /\ Caught("reconnect")
  /\ out' = Emit(Cur.conn, CatchEvent("reconnect"), Cur.room, NoCount)

\* handleUserLeave, lines 235-237: the error is logged; the lines after the
\* await, 214-233, are skipped.
LeaveCatch ==
  /\ Caught("leave")
  /\ out' = {}

StoreFails == JoinCatch \/ ReconnectCatch \/ LeaveCatch

\* One handler at a time, and any Redis command may be rejected; the cleanup
\* has not run.
NextFail == Handlers(1, {"r1"}) \/ StoreFails
SpecFail == Init /\ [][NextFail]_vars

\* Redis answers every command, with a reply or with an error.
Reply ==
  \/ JoinGetRoom
  \/ CreateHSet
  \/ CreateSAdd
  \/ CreateZAdd
  \/ UpdateSIsMember
  \/ UpdateHSet
  \/ UpdateZAdd
  \/ ReconnectGetRoom
  \/ StoreFails

SpecFailLive == SpecFail /\ WF_vars(Reply)

\* The handleUserLeave that the 'disconnect' of socket c started is awaiting
\* Redis: c was bound to a room when its transport closed.
Closing(c) ==
  \E i \in 1..Len(queue) :
    queue[i].kind = "leave" /\ queue[i].via = "disconnect" /\ queue[i].conn = c

\* C27: after the transport of a bound connection has closed, its
\* handleUserLeave eventually ends with the connection bound to no room, its
\* entry gone from activeConnections and the room's count written, also when
\* a Redis command of the leave is rejected.
C27_DisconnectCompletesLeave ==
  \A c \in Conns :
    Closing(c) ~>
      /\ fin.kind = "leave" /\ fin.conn = c
      /\ socketRoomId[c] = NoRoom
      /\ activeConnections[c] = Absent
      /\ \E r \in RoomIds : r = fin.room /\ ParseCount(roomHash[r]) = fin.n


\* C28: a socket is a member of no socket.io room other than the one its
\* roomId names, and an event addressed to a room reaches only sockets whose
\* roomId is that room: a connection that has moved from room A to room B is
\* out of A.
C28_AtMostOneRoom ==
  /\ \A c \in Conns : {r \in RoomIds : c \in sioRooms[r]} \subseteq {socketRoomId[c]}
  /\ \A m \in out :
       (m.room \in RoomIds /\ m.to # m.from) => socketRoomId[m.to] = m.room


\* C29: when a Redis command of a join-room handler is rejected, the handler
\* ends by sending join-error to the joiner and nothing else to anybody, in
\* particular no joined-room; when a command of handleUserLeave is rejected,
\* the handler ends without sending anything; and after either the gateway
\* still has events to serve.
C29_StoreFailureHandled ==
  /\ [][/\ (fin'.pc = "catch" /\ fin'.kind = "join") =>
             /\ out' \subseteq {Msg(fin'.conn, "join-error", fin'.conn, fin'.room, NoCount)}
             /\ connected[fin'.conn] => out' # {}
        /\ (fin'.pc = "catch" /\ fin'.kind = "leave") => out' = {}
        /\ (fin'.pc = "catch") => queue' = Tail(queue)]_vars
  /\ [](fin.pc = "catch" => ENABLED NextFail)

\* C29 witness: a join-room of a connected socket ended in its catch block
\* with join-error while another connection is bound to the room.
C29_Witness ==
  /\ fin.kind = "join" /\ fin.pc = "catch"
  /\ connected[fin.conn]
  /\ out = {Msg(fin.conn, "join-error", fin.conn, fin.room, NoCount)}
  /\ Joined(fin.room) \ {fin.conn} # {}


\* ----------------------------------------------------- a broadcast fails
\* Variant: the catch block takes the count back.
CountRolledBack(h, n) == hSet(h, [userCount |-> IF n > 0 THEN n - 1 ELSE n + 1])

\* The catch blocks of join-room and handleUserLeave (lines 64-70, 235-237)
\* do not touch the store: the room's hash stays as updateRoomActivity left it.
CountKept(h, n) == h

\* socket.to(roomId).emit throws after updateRoomActivity has returned true:
\* some of the peers may have been reached.  join-room has sent joined-room
\* (line 46) and its catch sends join-error; handleUserLeave's catch logs, and
\* lines 220-233 are skipped.
BroadcastFault ==
  /\ Updating /\ Cur.kind \in {"join", "leave"} /\ Cur.pc = "zadd"
  /\ roomsLatest' = [roomsLatest EXCEPT ![Cur.room] = now]
  /\ roomHash' = [roomHash EXCEPT ![Cur.room] = CountKept(@, Cur.n)]
  /\ \E reached \in SUBSET Broadcast(Cur.conn, Cur.room,
                     IF Cur.kind = "join" THEN "user-joined" ELSE "user-left", Cur.n) :
       out' = reached \cup
              (IF Cur.kind = "join"
               THEN Emit(Cur.conn, "joined-room", Cur.room, Cur.n)
                      \cup Emit(Cur.conn, CatchEvent("join"), Cur.room, NoCount)
               ELSE {})
  /\ queue' = Tail(queue)
  /\ fin' = [Cur EXCEPT !.pc = "emit-catch", !.ok = TRUE]
  /\ joinsOnly' = FALSE
  /\ HistOther
  /\ UNCHANGED <<now, roomsList, sockVars, swTodo>>

\* One handler at a time, and a broadcast may fail; the cleanup has not run.
NextEmitFail == Handlers(1, {"r1"}) \/ BroadcastFault
SpecEmitFail == Init /\ [][NextEmitFail]_vars

CleanupAgeHours == 1

\* C31: a run of cleanupInactiveRooms that no other handler interleaves with
\* removes a room exactly when its userCount is 0 and more than
\* CleanupAgeHours hours have passed since its last activity; rooms with
\* users and younger empty rooms are kept.
C31_SweepAfterOneHour ==
  swState = "finished" =>
    \A r \in swSnap.list :
      LET h == swSnap.hash[r] IN
        h # EmptyHash =>
          (~RoomExists(r) <=>
             (ParseCount(h) = 0 /\ (now - h.lastActivity) * HoursPerTick > CleanupAgeHours))


\* C32: whenever no handler awaits Redis, a room id has a hash exactly when
\* it is in rooms:active and exactly when it is in rooms:latest.
C32_StoreConsistent ==
  queue = <<>> =>
    \A r \in RoomIds :
      /\ RoomExists(r) <=> r \in roomsList
      /\ RoomExists(r) <=> roomsLatest[r] # -1


\* C33: when joined-room is delivered for room r, the handler's
\* updateRoomActivity has returned true and r exists in the store: it has a
\* hash and is in rooms:active.
C33_JoinedRoomExists ==
  \A m \in out :
    m.ev = "joined-room" =>
      /\ fin.ok
      /\ RoomExists(m.room) /\ m.room \in roomsList


\* C34: when getRoom resolves in a join-room of a connection that is already
\* Joined to that room, the count the handler goes on to store is the count
\* the room already has.
C34_RepeatJoinKeepsCount ==
  [][(HeadStep /\ Cur.kind = "join" /\ Cur.pc = "get"
        /\ Cur.conn \in Joined(Cur.room) /\ RoomExists(Cur.room)) =>
       \A i \in 1..Len(queue') :
         (queue'[i].kind = "join" /\ queue'[i].conn = Cur.conn) =>
           queue'[i].n = ParseCount(roomHash[Cur.room])]_vars


\* C35: a join-room that ended in join-error because a store operation was
\* rejected leaves its connection out of the room's broadcast group and with
\* roomId null.
C35_FailedJoinUnjoined ==
  (fin.kind = "join" /\ fin.pc = "catch") =>
    /\ \A r \in RoomIds : r = fin.room => fin.conn \notin sioRooms[r]
    /\ socketRoomId[fin.conn] = NoRoom


\* C36: every open connection has an entry in activeConnections, and the
\* entry's roomId is the room the socket is bound to (null when unbound).
C36_LiveSetAccurate ==
  \A c \in Conns :
    connected[c] =>
      /\ activeConnections[c] # Absent
      /\ activeConnections[c] = socketRoomId[c]


\* C37: after a successful reconnect-to-room the userCount in the store, in
\* reconnected-to-room and in user-reconnected are one value, the number of
\* connections bound to the room; and
\* when getRoom resolves in a reconnect-to-room of a connection that is
\* already Joined to that room, the count the handler goes on to store is
\* the count the room already has.
C37_ReconnectCount ==
  /\ []((fin.kind = "reconnect" /\ fin.ok) =>
          /\ \A m \in out : m.uc = fin.n
          /\ \E r \in RoomIds :
               /\ r = fin.room
               /\ ParseCount(roomHash[r]) = fin.n
               /\ fin.n = Cardinality(Joined(r)))
  /\ [][(HeadStep /\ Cur.kind = "reconnect" /\ Cur.pc = "get"
           /\ Cur.conn \in Joined(Cur.room) /\ RoomExists(Cur.room)) =>
          \A i \in 1..Len(queue') :
            (queue'[i].kind = "reconnect" /\ queue'[i].conn = Cur.conn) =>
              queue'[i].n = ParseCount(roomHash[Cur.room])]_vars


\* ------------------------------------------- the data of a relayed message
Undefined == "undefined"
Bodies == {Undefined, "sdp"}

\* What a client can send with offer, answer or ice-candidate: the target,
\* a sender identity of its own, and at most one of the three fields the
\* handlers read.
RelayData ==
  {data \in [targetUserId : Conns \cup {"r1"}, fromUserId : Conns,
             offer : Bodies, answer : Bodies, candidate : Bodies] :
     Cardinality({f \in {"offer", "answer", "candidate"} : data[f] # Undefined}) <= 1}

\* const { targetUserId, offer } = data, and likewise answer and candidate.
PayloadOf(kind, data) ==
  CASE kind = "offer" -> data.offer
    [] kind = "answer" -> data.answer
    [] OTHER -> data.candidate

\* Variant: the data's own fromUserId overrides socket.id.
FromUserIdOfData(c, data) == data.fromUserId

\* fromUserId: socket.id
FromUserId(c, data) == c

\* socket.to(targetUserId).emit(kind, {fromUserId: socket.id, <payload>})
RelayWithData(c, kind, data) ==
  /\ connected[c]
  /\ out' = {Msg(d, kind, FromUserId(c, data), data.targetUserId, NoCount)
               @@ [payload |-> PayloadOf(kind, data)] :
             d \in Group(data.targetUserId) \ {c}}
  /\ fin' = Task(kind, "", c, data.targetUserId, 0, "") @@ [data |-> data]
  /\ joinsOnly' = FALSE
  /\ HistOther
  /\ UNCHANGED <<now, storeVars, sockVars, queue, swTodo>>

\* The socket events on one room, one handler at a time and the relayed
\* messages between their steps; the clock stands still and the cleanup has
\* not run.
NextRelay ==
  \/ \E c \in Conns : Connect(c)
  \/ \E c \in Conns, pw \in Passwords : JoinStart(1, c, "r1", pw)
  \/ JoinGetRoom
  \/ CreateHSet
  \/ CreateSAdd
  \/ CreateZAdd
  \/ UpdateSIsMember
  \/ UpdateHSet
  \/ UpdateZAdd
  \/ \E c \in Conns : LeaveRoom(1, c)
  \/ \E c \in Conns : Disconnect(1, c)
  \/ \E c \in Conns, kind \in RelayKinds, data \in RelayData :
       RelayWithData(c, kind, data)
SpecRelay == Init /\ [][NextRelay]_vars

\* C38: every offer, answer or ice-candidate that is delivered names as
\* fromUserId the socket that sent it, whatever the client's data says, and
\* carries the payload of the data as the client sent it.
C38_RelaySenderIdentity ==
  fin.kind \in RelayKinds =>
    \A m \in out :
      /\ m.ev = fin.kind
      /\ m.from = fin.conn
      /\ m.payload = PayloadOf(fin.kind, fin.data)

\* C38 witness: an offer whose data names another socket as its sender was
\* delivered to its target with a payload.
C38_Witness ==
  /\ fin.kind = "offer"
  /\ fin.data.fromUserId \in Conns \ {fin.conn}
  /\ fin.data.offer # Undefined
  /\ \E m \in out : m.to = fin.data.targetUserId /\ m.from = fin.conn

====
